---- MODULE Spec2Model ----
(***************************************************************************)
(* Model of the Dash demo application: the memoized warehouse/connection   *)
(* helpers of utils/sql_client.py, the soft row cap of the SQL explorer    *)
(* page and the chained callbacks of the catalog browser page.             *)
(*                                                                         *)
(* Python values are modelled as follows: a str is a TLA+ string (built    *)
(* with \o where the code formats one) or, where the code inspects its     *)
(* characters, a sequence of one-character strings; None is the string     *)
(* None, which no path or identifier of the model equals.                  *)
(***************************************************************************)
EXTENDS Integers, Sequences, FiniteSets, TLC

VARIABLES
    disc,       \* one evaluation of get_warehouse_http_path's body
    sqlx,       \* one invocation of the SQL explorer's run_sql callback
    whCache,    \* lru_cache of get_warehouse_http_path
    connCache,  \* lru_cache of get_connection
    clientCache,\* lru_cache of the catalog page's _client
    th,         \* the request threads of the server
    env,        \* os.environ["DATABRICKS_WAREHOUSE_ID"]
    stats,      \* how often each memoized body has run, and what was first returned
    exclusive,  \* whether requests are served one at a time
    view,       \* catalog page: children of cat-list, schema-list, table-list, table-detail
    store,      \* catalog page: data of store-catalog, store-schema, store-table
    n_clicks,   \* catalog page: n_clicks of the list items on the page, by item type
    pending,    \* catalog page: callback invocations requested and not yet run
    act,        \* catalog page: the user action being resolved, and the page before it
    last,       \* catalog page: the callback invocation run last
    idn,        \* identity page: the request served and the sections rendered
    board       \* sales and taxi pages: controls, views and requested callbacks

cacheVars == <<whCache, connCache, clientCache, th, env, stats, exclusive>>
pageVars == <<view, store, n_clicks, pending, act, last>>
vars == <<disc, sqlx, whCache, connCache, clientCache, th, env, stats, exclusive,
          view, store, n_clicks, pending, act, last, idn, board>>

None == "None"

\* Python truthiness of an optional string: None and "" are falsy.
Truthy(v) == v # None /\ v # ""

Range(seq) == {seq[i] : i \in 1..Len(seq)}

(***************************************************************************)
(* Bounds of the model.                                                    *)
(***************************************************************************)
MaxWh == 3          \* warehouses in a listing
MaxTokens == 3      \* fragments an ad-hoc statement is made of
MaxCalls == 2       \* requests each thread serves
MaxClicks == 3      \* clicks the user makes on the catalog page
MaxCols == 2        \* columns of a result set
MaxRuns == 2        \* times the user presses Run
MaxChanges == 2     \* controls the user moves on a sales or taxi page
MaxOverlap == 2     \* clicks up to which a click may overlap the one before it

(***************************************************************************)
(* utils/sql_client.py: warehouse discovery (the body under the cache).    *)
(***************************************************************************)
WarehouseStates == {"RUNNING", "STOPPED", None}

\* The listing w.warehouses.list() returns: the i-th warehouse has id "wh<i>".
WarehouseIds == <<"wh1", "wh2", "wh3", "wh4", "wh5">>

WarehouseAttrs == [enable_serverless_compute : BOOLEAN, state : WarehouseStates]

Listings ==
    UNION {[1..n -> WarehouseAttrs] : n \in 0..MaxWh}

\* Values of os.getenv("DATABRICKS_WAREHOUSE_ID"): unset, empty, or an id.
EnvValues == {None, "", "wh-env"}

\* f"/sql/1.0/warehouses/{id}"
HttpPath(id) == "/sql/1.0/warehouses/" \o id

IsServerless(wh) == wh.enable_serverless_compute
IsRunning(wh) == wh.state # None /\ wh.state = "RUNNING"

\* [wh for wh in warehouses if getattr(wh, "enable_serverless_compute", False)],
\* as the positions kept, in listing order, from position i on.
RECURSIVE Serverless(_, _)
Serverless(warehouses, i) ==
    IF i > Len(warehouses) THEN <<>>
    ELSE (IF IsServerless(warehouses[i]) THEN <<i>> ELSE <<>>)
         \o Serverless(warehouses, i + 1)

\* [wh for wh in warehouses if wh.state and wh.state.value == "RUNNING"]
RECURSIVE Running(_, _)
Running(warehouses, i) ==
    IF i > Len(warehouses) THEN <<>>
    ELSE (IF IsRunning(warehouses[i]) THEN <<i>> ELSE <<>>)
         \o Running(warehouses, i + 1)

\* A plausible slip: the running tier tried before the serverless tier.
PickWarehouseRunningFirst(warehouses) ==
    LET serverless == Serverless(warehouses, 1)
        running == Running(warehouses, 1)
    IN  IF running # <<>> THEN HttpPath(WarehouseIds[running[1]])
        ELSE IF serverless # <<>> THEN HttpPath(WarehouseIds[serverless[1]])
        ELSE IF warehouses # <<>> THEN HttpPath(WarehouseIds[1])
        ELSE None

\* Lines 21-29 and the fall-through to line 32.
PickWarehouse(warehouses) ==
    LET serverless == Serverless(warehouses, 1)
        running == Running(warehouses, 1)
    IN  IF serverless # <<>> THEN HttpPath(WarehouseIds[serverless[1]])
        ELSE IF running # <<>> THEN HttpPath(WarehouseIds[running[1]])
        ELSE IF warehouses # <<>> THEN HttpPath(WarehouseIds[1])
        ELSE None

\* The whole body: WorkspaceClient() is constructed first, inside the try;
\* any exception (from it or from the listing) is swallowed and None returned.
ComputeWarehouseHttpPath(warehouse_id, client_raises, list_raises, warehouses) ==
    IF client_raises THEN None
    ELSE IF Truthy(warehouse_id) THEN HttpPath(warehouse_id)
    ELSE IF list_raises THEN None
    ELSE PickWarehouse(warehouses)

DiscInit ==
    \E e \in EnvValues, cr \in BOOLEAN, lr \in BOOLEAN, ws \in Listings :
        disc = [pc |-> "start", warehouse_id |-> e, client_raises |-> cr,
                list_raises |-> lr, warehouses |-> ws, result |-> None]

Discover ==
    /\ disc.pc = "start"
    /\ disc' = [disc EXCEPT
                  !.pc = "done",
                  !.result = ComputeWarehouseHttpPath(
                      disc.warehouse_id, disc.client_raises,
                      disc.list_raises, disc.warehouses)]
    /\ UNCHANGED <<sqlx, idn, board, cacheVars, pageVars>>

(***************************************************************************)
(* pages/sql_explorer.py: run_sql and its soft row cap.  A statement is a  *)
(* Python str, modelled as the sequence of its characters.                 *)
(***************************************************************************)
\* The fragments ad-hoc statements of the model are concatenated from.
Fragments == {"SELECT a", ",a_limit", " LIMIT 5", " limit 5", " ", "\n", ";"}

CharsOf(f) ==
    CASE f = "SELECT a" -> <<"S", "E", "L", "E", "C", "T", " ", "a">>
      [] f = ",a_limit" -> <<",", "a", "_", "l", "i", "m", "i", "t">>
      [] f = " LIMIT 5" -> <<" ", "L", "I", "M", "I", "T", " ", "5">>
      [] f = " limit 5" -> <<" ", "l", "i", "m", "i", "t", " ", "5">>
      [] f = " " -> <<" ">>
      [] f = "\n" -> <<"\n">>
      [] f = ";" -> <<";">>

RECURSIVE Flatten(_)
Flatten(fs) == IF fs = <<>> THEN <<>> ELSE CharsOf(Head(fs)) \o Flatten(Tail(fs))

\* The statements the editor can hold; <<>> stands for both None and "".
Statements ==
    {Flatten(fs) : fs \in UNION {[1..n -> Fragments] : n \in 0..MaxTokens}}

\* Values of the Max Rows input, an optional number: <<>> is None (the field
\* is empty) and <<n>> is the number n.
MaxRowsValues == {<<>>, <<0>>, <<10>>, <<500>>, <<1200>>}

\* The characters str.strip() removes (those the model's statements contain).
Whitespace == {" ", "\n"}

RECURSIVE LStrip(_, _)
LStrip(s, chars) ==
    IF s # <<>> /\ Head(s) \in chars THEN LStrip(Tail(s), chars) ELSE s

RECURSIVE RStrip(_, _)
RStrip(s, chars) ==
    IF s # <<>> /\ s[Len(s)] \in chars
    THEN RStrip(SubSeq(s, 1, Len(s) - 1), chars) ELSE s

\* str.strip()
Strip(s) == RStrip(LStrip(s, Whitespace), Whitespace)

\* str.lower(), on the letters the model's statements contain.
LowerChar(c) ==
    CASE c = "A" -> "a" [] c = "B" -> "b" [] c = "C" -> "c" [] c = "D" -> "d"
      [] c = "E" -> "e" [] c = "F" -> "f" [] c = "G" -> "g" [] c = "H" -> "h"
      [] c = "I" -> "i" [] c = "J" -> "j" [] c = "K" -> "k" [] c = "L" -> "l"
      [] c = "M" -> "m" [] c = "N" -> "n" [] c = "O" -> "o" [] c = "P" -> "p"
      [] c = "Q" -> "q" [] c = "R" -> "r" [] c = "S" -> "s" [] c = "T" -> "t"
      [] c = "U" -> "u" [] c = "V" -> "v" [] c = "W" -> "w" [] c = "X" -> "x"
      [] c = "Y" -> "y" [] c = "Z" -> "z"
      [] OTHER -> c

Lower(s) == [i \in 1..Len(s) |-> LowerChar(s[i])]

\* needle in hay, for Python strs
Contains(hay, needle) ==
    \E i \in 1..(Len(hay) - Len(needle) + 1) :
        SubSeq(hay, i, i + Len(needle) - 1) = needle

\* str(n) for a non-negative int
Digit(d) == <<"0", "1", "2", "3", "4", "5", "6", "7", "8", "9">>[d + 1]

RECURSIVE Str(_)
Str(n) == IF n < 10 THEN <<Digit(n)>> ELSE Str(n \div 10) \o <<Digit(n % 10)>>

SelectFrom == <<"S", "E", "L", "E", "C", "T", " ", "*", " ", "F", "R", "O", "M", " ", "(">>
QLimit == <<")", " ", "_", "q", " ", "L", "I", "M", "I", "T", " ">>

DefaultMaxRows == 500

\* max_rows or 500
OrDefault(max_rows) ==
    IF max_rows = <<>> \/ max_rows[1] = 0 THEN DefaultMaxRows ELSE max_rows[1]

\* f"SELECT * FROM ({safe}) _q LIMIT {max_rows or 500}"
Wrap(safe, max_rows) == SelectFrom \o safe \o QLimit \o Str(OrDefault(max_rows))

\* A plausible slip: the cap is appended whether or not a limit is present.
SafeStatementAlwaysWrap(query, max_rows) ==
    Wrap(RStrip(Strip(query), {";"}), max_rows)

\* A plausible slip: the requested cap is ignored in favour of the default.
SafeStatementDefaultOnly(query, max_rows) ==
    LET safe == RStrip(Strip(query), {";"})
    IN  IF ~Contains(Lower(safe), <<"l", "i", "m", "i", "t">>)
        THEN Wrap(safe, <<>>) ELSE safe

\* Lines 124-126: the statement handed to run_query.
SafeStatement(query, max_rows) ==
    LET safe == RStrip(Strip(query), {";"})
    IN  IF ~Contains(Lower(safe), <<"l", "i", "m", "i", "t">>)
        THEN Wrap(safe, max_rows) ELSE safe

\* Line 121: not query or not query.strip()
IsBlank(query) == query = <<>> \/ Strip(query) = <<>>

SqlIdle == [pc |-> "idle"]

SqlInit ==
    \E q \in Statements, m \in MaxRowsValues :
        sqlx = [pc |-> "start", query |-> q, max_rows |-> m,
                submitted |-> <<>>, results |-> "none", store |-> "none"]

\* run_sql on a blank editor: the warning, and the store cleared (line 122).
RunSqlBlank ==
    /\ sqlx.pc = "start"
    /\ IsBlank(sqlx.query)
    /\ sqlx' = [sqlx EXCEPT !.pc = "done", !.results = "warning", !.store = None]
    /\ UNCHANGED <<disc, idn, board, cacheVars, pageVars>>

\* run_sql on a statement: run_query(safe) either returns a frame or raises.
RunSqlQuery ==
    /\ sqlx.pc = "start"
    /\ ~IsBlank(sqlx.query)
    /\ \E raises \in BOOLEAN :
        sqlx' = [sqlx EXCEPT
                   !.pc = "done",
                   !.submitted = <<SafeStatement(sqlx.query, sqlx.max_rows)>>,
                   !.results = IF raises THEN "error" ELSE "rows",
                   !.store = IF raises THEN None ELSE "rows"]
    /\ UNCHANGED <<disc, idn, board, cacheVars, pageVars>>

(***************************************************************************)
(* pages/sql_explorer.py: the page as the user works with it.  The user    *)
(* edits the query, presses Run any number of times and, when the controls *)
(* are offered, picks the axes and the kind of the chart.                  *)
(***************************************************************************)
\* The column types the backend returns.  binary stands for a BINARY column
\* holding bytes that are not UTF-8 text, e.g. SELECT unhex('FF').
ColumnTypes == {"bigint", "double", "decimal", "string", "binary"}

\* cursor.fetchall_arrow().to_pandas(): integers and floats keep a number
\* dtype; decimals, strings and binaries become Python objects.
DType(type) ==
    CASE type = "bigint" -> "int64"
      [] type = "double" -> "float64"
      [] OTHER -> "object"

NameOf(i) == "c" \o ToString(i)

Frame(types) == [i \in 1..Len(types) |-> [name |-> NameOf(i), type |-> types[i],
                                         dtype |-> DType(types[i])]]

ResultSets == {Frame(types) : types \in UNION {[1..n -> ColumnTypes] : n \in 1..MaxCols}}

ColumnNames(df) == [i \in 1..Len(df) |-> df[i].name]

\* df.select_dtypes(include="number").columns.tolist()
NumericCols(df) ==
    ColumnNames(SelectSeq(df, LAMBDA col : col.dtype \in {"int64", "float64"}))

\* The steps of run_sql after the query has returned (lines 134-185) are in no
\* try block; serialising the frame raises on bytes that are not text.
Serialisable(df) == \A i \in 1..Len(df) : df[i].type # "binary"

EditorValues == {<<>>, <<" ">>, CharsOf("SELECT a"), CharsOf(" LIMIT 5")}

ChartTypes == {"Bar", "Line", "Scatter", "Area"}

NoPane == [kind |-> "empty", run |-> 0, msg |-> None, df |-> <<>>,
           viz |-> FALSE, x |-> <<>>, y |-> <<>>, x0 |-> None, y0 |-> None]

NoChart == [kind |-> "empty", run |-> 0, msg |-> None, x |-> None, y |-> None,
            chart_type |-> None]

\* The page as layout() returns it (lines 58-98).
SqlPageInit ==
    sqlx = [pc |-> "page", query |-> CharsOf("SELECT a") \o CharsOf(" LIMIT 5"),
            max_rows |-> <<500>>, runs |-> 0, submitted |-> <<>>,
            results |-> NoPane, store |-> <<>>, chart |-> NoChart,
            raised |-> FALSE, fetched |-> 0]

\* The user replaces the text of sql-editor.
EditQuery ==
    /\ sqlx.pc = "page"
    /\ \E q \in EditorValues : q # sqlx.query /\ sqlx' = [sqlx EXCEPT !.query = q]
    /\ UNCHANGED <<disc, idn, board, cacheVars, pageVars>>

\* The pane run_sql returns for a frame (lines 133-183).
ResultsPane(df, run) ==
    LET numeric_cols == NumericCols(df)
        all_cols == ColumnNames(df)
        viz == numeric_cols # <<>> /\ Len(all_cols) >= 2
    IN  [kind |-> "rows", run |-> run, msg |-> None, df |-> df, viz |-> viz,
         x |-> IF viz THEN all_cols ELSE <<>>,
         y |-> IF viz THEN numeric_cols ELSE <<>>,
         x0 |-> IF viz THEN all_cols[1] ELSE None,
         y0 |-> IF viz THEN numeric_cols[1] ELSE None]

\* The user presses sql-run: run_sql (lines 120-185) as a whole.
RunSql ==
    /\ sqlx.pc = "page"
    /\ sqlx.runs < MaxRuns
    /\ LET run == sqlx.runs + 1 IN
       IF IsBlank(sqlx.query)
       THEN sqlx' = [sqlx EXCEPT
                !.runs = run, !.raised = FALSE,
                !.results = [NoPane EXCEPT !.kind = "warning", !.run = run,
                                           !.msg = "Please enter a SQL query."],
                !.store = <<>>, !.chart = NoChart]
       ELSE \/ \* run_query raises: caught at line 130.
               sqlx' = [sqlx EXCEPT
                !.runs = run, !.raised = FALSE, !.fetched = @ + 1,
                !.submitted = <<SafeStatement(sqlx.query, sqlx.max_rows)>>,
                !.results = [NoPane EXCEPT !.kind = "error", !.run = run,
                                           !.msg = "run_query failed"],
                !.store = <<>>, !.chart = NoChart]
            \/ \E df \in ResultSets :
               IF Serialisable(df)
               THEN sqlx' = [sqlx EXCEPT
                        !.runs = run, !.raised = FALSE, !.fetched = @ + 1,
                        !.submitted = <<SafeStatement(sqlx.query, sqlx.max_rows)>>,
                        !.results = ResultsPane(df, run),
                        !.store = <<[run |-> run, df |-> df]>>, !.chart = NoChart]
               ELSE \* The exception leaves run_sql: Dash answers the request
                    \* with an error and writes neither output.
                    sqlx' = [sqlx EXCEPT
                        !.runs = run, !.raised = TRUE, !.fetched = @ + 1,
                        !.submitted = <<SafeStatement(sqlx.query, sqlx.max_rows)>>]
    /\ UNCHANGED <<disc, idn, board, cacheVars, pageVars>>

\* The user picks a value in viz-x, viz-y or viz-type: update_viz (lines
\* 197-213) with the three values and the stored frame.  The chart call may
\* raise, which line 212 catches.
UpdateViz ==
    /\ sqlx.pc = "page"
    /\ sqlx.results.viz
    /\ \E x \in Range(sqlx.results.x), y \in Range(sqlx.results.y),
          chart_type \in ChartTypes, raises \in BOOLEAN :
        sqlx' = [sqlx EXCEPT
            !.raised = FALSE,
            !.chart = IF sqlx.store = <<>> THEN NoChart
                      ELSE IF raises
                      THEN [NoChart EXCEPT !.kind = "error", !.run = sqlx.store[1].run,
                                           !.msg = "chart failed"]
                      ELSE [kind |-> "graph", run |-> sqlx.store[1].run,
                            msg |-> None, x |-> x, y |-> y,
                            chart_type |-> chart_type]]
    /\ UNCHANGED <<disc, idn, board, cacheVars, pageVars>>

NextSqlPage == EditQuery \/ RunSql \/ UpdateViz

(***************************************************************************)
(* functools.lru_cache(maxsize=1), as utils/sql_client.py and              *)
(* pages/catalog.py apply it.  A cache is <<>> or holds one entry.  The    *)
(* wrapper looks the key up, calls the body on a miss without holding any  *)
(* lock, and afterwards stores the result unless the key has been stored   *)
(* meanwhile; the caller gets the result of its own call of the body.  An  *)
(* exception of the body leaves the wrapper before anything is stored.     *)
(***************************************************************************)
\* The request threads of the server: two are enough for first calls to race.
Threads == {"t1", "t2"}

\* A plausible slip: a cache that is never hit.
CacheHitNever(cache, key) == FALSE

CacheHit(cache, key) == cache # <<>> /\ cache[1].key = key

\* With maxsize=1 a new key evicts the entry of the old one.
CacheStore(cache, key, value, raised) ==
    IF CacheHit(cache, key) THEN cache
    ELSE <<[key |-> key, value |-> value, raised |-> raised]>>

\* The key of a call without arguments.
NoArgs == "()"

Unset == "unset"

Queries == {"SELECT 1", "SELECT 2"}

Requests == {"run_query", "layout", "_client"}

\* The listings the warehouse service returns while the caches are exercised.
ServiceListings ==
    {<<>>, <<[enable_serverless_compute |-> TRUE, state |-> "RUNNING"]>>}

\* The values the environment variable takes while the caches are exercised.
DeployedEnvValues == {None, "wh-env"}

IdleThread ==
    [pc |-> "idle", req |-> Unset, query |-> Unset, http_path |-> Unset,
     conn |-> Unset, client |-> Unset, tmp |-> Unset, raised |-> FALSE,
     out |-> Unset, executed |-> <<>>, opened |-> 0, hits |-> 0,
     envSeen |-> Unset, calls |-> 0]

CacheInit ==
    /\ whCache = <<>>
    /\ connCache = <<>>
    /\ clientCache = <<>>
    /\ th = [t \in Threads |-> IdleThread]
    /\ env \in DeployedEnvValues
    /\ stats = [whRuns |-> 0, connRuns |-> 0, clientRuns |-> 0,
                whFirst |-> <<>>, connFirst |-> <<>>, clientFirst |-> <<>>]

CacheIdle ==
    /\ whCache = <<>>
    /\ connCache = <<>>
    /\ clientCache = <<>>
    /\ th = <<>>
    /\ env = None
    /\ stats = [whRuns |-> 0]
    /\ exclusive = FALSE

\* The object the n-th successful call of a body returns: a new one each time.
NewHandle(kind, n) == kind \o "#" \o ToString(n)

\* The first value a helper has returned: kept once set.
First(first, value) == IF first = <<>> THEN <<value>> ELSE first

\* A request arrives: a callback that calls run_query, the SQL page's layout
\* (which calls get_warehouse_http_path), or a catalog callback (_client).
StartRequest(t) ==
    /\ th[t].pc \in {"idle", "done"}
    /\ th[t].calls < MaxCalls
    /\ exclusive => \A u \in Threads : th[u].pc \in {"idle", "done"}
    /\ \E r \in Requests, q \in Queries :
        th' = [th EXCEPT ![t] =
                 [IdleThread EXCEPT
                    !.pc = IF r = "_client" THEN "client_lookup" ELSE "wh_lookup",
                    !.req = r,
                    !.query = IF r = "run_query" THEN q ELSE Unset,
                    !.calls = th[t].calls + 1]]
    /\ UNCHANGED <<disc, idn, board, sqlx, whCache, connCache, clientCache, env, stats, exclusive, pageVars>>

\* A plausible slip: the connection is asked for before the path is checked.
AfterHttpPathNoCheck(thread) ==
    IF thread.req = "layout"
    THEN [thread EXCEPT !.pc = "done", !.out = "layout"]
    ELSE [thread EXCEPT !.pc = "conn_lookup"]

\* What follows get_warehouse_http_path() in its caller: layout renders; run_query
\* raises on a falsy path (lines 48-49) and else goes on to get_connection.
AfterHttpPath(thread) ==
    IF thread.req = "layout"
    THEN [thread EXCEPT !.pc = "done", !.out = "layout"]
    ELSE IF ~Truthy(thread.http_path)
    THEN [thread EXCEPT !.pc = "done",
                        !.out = "RuntimeError: No SQL warehouse available."]
    ELSE [thread EXCEPT !.pc = "conn_lookup"]

\* get_warehouse_http_path(): the wrapper's lookup.
WhLookup(t) ==
    /\ th[t].pc = "wh_lookup"
    /\ IF CacheHit(whCache, NoArgs)
       THEN /\ th' = [th EXCEPT ![t] =
                        AfterHttpPath([th[t] EXCEPT !.http_path = whCache[1].value,
                                                    !.hits = @ + 1,
                                                    !.envSeen = env])]
            /\ stats' = [stats EXCEPT !.whFirst = First(@, whCache[1].value)]
       ELSE /\ th' = [th EXCEPT ![t].pc = "wh_body"]
            /\ UNCHANGED stats
    /\ UNCHANGED <<disc, idn, board, sqlx, whCache, connCache, clientCache, env, exclusive, pageVars>>

\* get_warehouse_http_path(): the body, on the environment and the service's
\* answers of the moment.
WhBody(t) ==
    /\ th[t].pc = "wh_body"
    /\ \E cr \in BOOLEAN, lr \in BOOLEAN, ws \in ServiceListings :
        th' = [th EXCEPT ![t].pc = "wh_store",
                         ![t].tmp = ComputeWarehouseHttpPath(env, cr, lr, ws),
                         ![t].raised = cr \/ (~Truthy(env) /\ lr)]
    /\ stats' = [stats EXCEPT !.whRuns = @ + 1]
    /\ UNCHANGED <<disc, idn, board, sqlx, whCache, connCache, clientCache, env, exclusive, pageVars>>

\* get_warehouse_http_path(): the body has returned (a path or None, never an
\* exception); the wrapper stores and returns.
WhStore(t) ==
    /\ th[t].pc = "wh_store"
    /\ whCache' = CacheStore(whCache, NoArgs, th[t].tmp, th[t].raised)
    /\ th' = [th EXCEPT ![t] =
                AfterHttpPath([th[t] EXCEPT !.http_path = th[t].tmp, !.tmp = Unset])]
    /\ stats' = [stats EXCEPT !.whFirst = First(@, th[t].tmp)]
    /\ UNCHANGED <<disc, idn, board, sqlx, connCache, clientCache, env, exclusive, pageVars>>

\* get_connection(http_path): the wrapper's lookup.
ConnLookup(t) ==
    /\ th[t].pc = "conn_lookup"
    /\ IF CacheHit(connCache, th[t].http_path)
       THEN /\ th' = [th EXCEPT ![t].pc = "execute",
                                ![t].conn = connCache[1].value,
                                ![t].hits = @ + 1]
            /\ stats' = [stats EXCEPT !.connFirst = First(@, connCache[1].value)]
       ELSE /\ th' = [th EXCEPT ![t].pc = "conn_body"]
            /\ UNCHANGED stats
    /\ UNCHANGED <<disc, idn, board, sqlx, whCache, connCache, clientCache, env, exclusive, pageVars>>

\* get_connection(http_path): the body.  sql.connect either raises, and the
\* exception leaves run_query, or returns a new connection.
ConnBody(t) ==
    /\ th[t].pc = "conn_body"
    /\ \E raises \in BOOLEAN :
        IF raises
        THEN /\ th' = [th EXCEPT ![t].pc = "done", ![t].out = "connect failed"]
             /\ UNCHANGED stats
        ELSE /\ th' = [th EXCEPT ![t].pc = "conn_store",
                                 ![t].tmp = NewHandle("connection", stats.connRuns + 1),
                                 ![t].opened = @ + 1]
             /\ stats' = [stats EXCEPT !.connRuns = @ + 1]
    /\ UNCHANGED <<disc, idn, board, sqlx, whCache, connCache, clientCache, env, exclusive, pageVars>>

ConnStore(t) ==
    /\ th[t].pc = "conn_store"
    /\ connCache' = CacheStore(connCache, th[t].http_path, th[t].tmp, FALSE)
    /\ th' = [th EXCEPT ![t].pc = "execute", ![t].conn = th[t].tmp, ![t].tmp = Unset]
    /\ stats' = [stats EXCEPT !.connFirst = First(@, th[t].tmp)]
    /\ UNCHANGED <<disc, idn, board, sqlx, whCache, clientCache, env, exclusive, pageVars>>

\* cursor.execute(query): the text handed to the cursor.
ExecutedText(query) == query

\* Lines 51-53: the statement is executed on the connection; the backend
\* answers with rows or raises.
Execute(t) ==
    /\ th[t].pc = "execute"
    /\ \E raises \in BOOLEAN :
        th' = [th EXCEPT ![t].pc = "done",
                         ![t].executed = Append(@, ExecutedText(th[t].query)),
                         ![t].out = IF raises THEN "query failed" ELSE "rows"]
    /\ UNCHANGED <<disc, idn, board, sqlx, whCache, connCache, clientCache, env, stats, exclusive, pageVars>>

\* _client(): the wrapper's lookup.
ClientLookup(t) ==
    /\ th[t].pc = "client_lookup"
    /\ IF CacheHit(clientCache, NoArgs)
       THEN /\ th' = [th EXCEPT ![t].pc = "done", ![t].out = "client",
                                ![t].client = clientCache[1].value,
                                ![t].hits = @ + 1]
            /\ stats' = [stats EXCEPT !.clientFirst = First(@, clientCache[1].value)]
       ELSE /\ th' = [th EXCEPT ![t].pc = "client_body"]
            /\ UNCHANGED stats
    /\ UNCHANGED <<disc, idn, board, sqlx, whCache, connCache, clientCache, env, exclusive, pageVars>>

\* _client(): the body.  WorkspaceClient() either raises, and the callback
\* renders the error, or returns a new client.
ClientBody(t) ==
    /\ th[t].pc = "client_body"
    /\ \E raises \in BOOLEAN :
        IF raises
        THEN /\ th' = [th EXCEPT ![t].pc = "done", ![t].out = "client failed"]
             /\ UNCHANGED stats
        ELSE /\ th' = [th EXCEPT ![t].pc = "client_store",
                                 ![t].tmp = NewHandle("client", stats.clientRuns + 1)]
             /\ stats' = [stats EXCEPT !.clientRuns = @ + 1]
    /\ UNCHANGED <<disc, idn, board, sqlx, whCache, connCache, clientCache, env, exclusive, pageVars>>

ClientStore(t) ==
    /\ th[t].pc = "client_store"
    /\ clientCache' = CacheStore(clientCache, NoArgs, th[t].tmp, FALSE)
    /\ th' = [th EXCEPT ![t].pc = "done", ![t].out = "client",
                        ![t].client = th[t].tmp, ![t].tmp = Unset]
    /\ stats' = [stats EXCEPT !.clientFirst = First(@, th[t].tmp)]
    /\ UNCHANGED <<disc, idn, board, sqlx, whCache, connCache, env, exclusive, pageVars>>

\* The deployment's environment value is changed while the process runs.
EnvChange ==
    /\ \E e \in DeployedEnvValues \ {env} : env' = e
    /\ UNCHANGED <<disc, idn, board, sqlx, whCache, connCache, clientCache, th, stats, exclusive, pageVars>>

CacheNext ==
    \/ \E t \in Threads :
        \/ StartRequest(t)
        \/ WhLookup(t) \/ WhBody(t) \/ WhStore(t)
        \/ ConnLookup(t) \/ ConnBody(t) \/ ConnStore(t)
        \/ Execute(t)
        \/ ClientLookup(t) \/ ClientBody(t) \/ ClientStore(t)
    \/ EnvChange

(***************************************************************************)
(* pages/catalog.py: the catalog browser.  The page holds four views and   *)
(* three stores; the callbacks are run by Dash when one of their inputs is *)
(* in the list of changed properties (ctx.triggered).  Dash requests a     *)
(* callback when the user changes an input property, when another callback *)
(* writes one, and when components matching a pattern-matching input are   *)
(* inserted into or removed from the page (prevent_initial_call does not   *)
(* cover the latter two when the outputs are not inserted alongside).      *)
(***************************************************************************)
\* What the catalog service holds; scratch is a catalog without schemas.
ServiceCatalogs == <<"main", "samples", "scratch">>

SchemasOf(cat) ==
    CASE cat = "samples" -> <<"nyctaxi", "tpch">>
      [] cat = "main" -> <<"default">>
      [] OTHER -> <<>>

TablesOf(cat, schema) ==
    CASE cat = "samples" /\ schema = "nyctaxi" -> <<"trips">>
      [] cat = "samples" /\ schema = "tpch" -> <<"customer", "orders">>
      [] OTHER -> <<>>

\* Outcomes of a service call: it may always raise, and raises for a name
\* the service does not hold.
Raises(known) == IF known THEN BOOLEAN ELSE {TRUE}

\* html.Div(id=...) of the layout, before any callback has written it.
EmptyDiv == [kind |-> "empty", items |-> <<>>, of |-> None, msg |-> None]

\* dbc.ListGroup of one ListGroupItem per name; of records what was listed.
ListGroup(items, of) == [kind |-> "list", items |-> items, of |-> of, msg |-> None]

\* error_alert(str(e))
error_alert(msg) == [kind |-> "error", items |-> <<>>, of |-> None, msg |-> msg]

\* The detail pane of one table.
DetailDiv(full_name) == [kind |-> "detail", items |-> <<>>, of |-> full_name, msg |-> None]

\* Lines 67-68: samples is surfaced first.
SamplesFirst(catalogs) ==
    IF "samples" \in Range(catalogs)
    THEN <<"samples">> \o SelectSeq(catalogs, LAMBDA c : c # "samples")
    ELSE catalogs

\* Property ids as ctx.triggered lists them: the n_clicks of a list item, whose
\* id is a dict, and the data of a store or the ticks of the interval, whose id
\* is a str.
ItemProp(type, index) == [dict |-> TRUE, type |-> type, index |-> index]
StoreProp(id) == [dict |-> FALSE, type |-> id, index |-> None]

ItemProps(type, items) == [i \in 1..Len(items) |-> ItemProp(type, items[i])]

\* The n_clicks of freshly rendered items: None, which counts as 0.
Unclicked(items) == [i \in 1..Len(items) |-> 0]

\* any(n_clicks)
AnyClicked(clicks) == \E i \in 1..Len(clicks) : clicks[i] > 0

\* A plausible slip: the State values are those of before the response that
\* requests the callback was applied.
InvocationBeforeWrite(cb, triggered, clicks, catalog, schema) ==
    [cb |-> cb, triggered |-> triggered, n_clicks |-> clicks,
     catalog |-> store.catalog, schema |-> store.schema]

Invocation(cb, triggered, clicks, catalog, schema) ==
    [cb |-> cb, triggered |-> triggered, n_clicks |-> clicks,
     catalog |-> catalog, schema |-> schema]

\* One response that inserts items and writes a store requests the reader of
\* both once, with both in ctx.triggered; Dash does not specify their order.
Merged(itemProps, storeProp) ==
    IF itemProps = <<>> THEN {<<storeProp>>}
    ELSE {itemProps \o <<storeProp>>, <<storeProp>> \o itemProps}

\* A plausible slip: items removed from the page count as triggered.
ForItemsRemoved(cb, type, old, new, catalog, schema) ==
    IF old = <<>> /\ new = <<>> THEN <<>>
    ELSE <<[cb |-> cb, triggered |-> [i \in 1..Len(old \o new) |->
                        [dict |-> TRUE, type |-> type, index |-> (old \o new)[i]]],
            n_clicks |-> [i \in 1..Len(new) |-> 0],
            catalog |-> catalog, schema |-> schema]>>

\* The callback over the items of a replaced list is requested for the items
\* inserted and, with nothing in ctx.triggered, for items removed.
ForItems(cb, type, old, new, catalog, schema) ==
    IF old = <<>> /\ new = <<>> THEN <<>>
    ELSE <<Invocation(cb, ItemProps(type, new), Unclicked(new), catalog, schema)>>

Without(seq, i) == SubSeq(seq, 1, i - 1) \o SubSeq(seq, i + 1, Len(seq))

Ran(inv, noUpdate, called) == [inv |-> inv, noUpdate |-> noUpdate, called |-> called]

PageInit ==
    /\ view = [cat |-> EmptyDiv, schema |-> EmptyDiv, table |-> EmptyDiv,
               detail |-> EmptyDiv]
    /\ store = [catalog |-> None, schema |-> None, table |-> None]
    /\ n_clicks = [cat |-> <<>>, schema |-> <<>>, table |-> <<>>]
    /\ pending = <<Invocation("load_catalogs", <<>>, <<>>, None, None)>>
    /\ act = [kind |-> "mount", clicks |-> 0, ticks |-> 0,
              view |-> view, store |-> store]
    /\ last = Ran(Invocation("layout", <<>>, <<>>, None, None), FALSE, FALSE)

PageIdle ==
    /\ view = <<>> /\ store = <<>> /\ n_clicks = <<>>
    /\ pending = <<>> /\ act = <<>> /\ last = <<>>

\* dcc.Interval(id="cat-trigger", interval=1, max_intervals=1) fires once.
IntervalTick ==
    /\ act.kind = "mount" /\ act.ticks = 0
    /\ act' = [act EXCEPT !.ticks = 1]
    /\ pending' = Append(pending,
          Invocation("load_catalogs", <<StoreProp("cat-trigger")>>, <<>>, None, None))
    /\ UNCHANGED <<view, store, n_clicks, last, disc, idn, board, sqlx, cacheVars>>

\* Lines 61-75.
load_catalogs(i) ==
    /\ pending[i].cb = "load_catalogs"
    /\ \E raises \in BOOLEAN :
        LET children == IF raises THEN error_alert("catalogs.list failed")
                        ELSE ListGroup(SamplesFirst(ServiceCatalogs), "catalogs")
        IN  /\ view' = [view EXCEPT !.cat = children]
            /\ n_clicks' = [n_clicks EXCEPT !.cat = Unclicked(children.items)]
            /\ pending' = Without(pending, i)
                  \o ForItems("load_schemas", "cat-item", view.cat.items,
                              children.items, None, None)
    /\ last' = Ran(pending[i], FALSE, TRUE)
    /\ UNCHANGED <<store, act, disc, idn, board, sqlx, cacheVars>>

\* Lines 85-102.
load_schemas(i) ==
    LET inv == pending[i] IN
    /\ inv.cb = "load_schemas"
    /\ IF inv.triggered = <<>> \/ ~AnyClicked(inv.n_clicks)
       THEN /\ pending' = Without(pending, i)
            /\ last' = Ran(inv, TRUE, FALSE)
            /\ UNCHANGED <<view, store, n_clicks>>
       ELSE LET cat == inv.triggered[1].index IN
            /\ last' = Ran(inv, FALSE, TRUE)
            /\ \E raises \in Raises(cat \in Range(ServiceCatalogs)) :
                IF raises
                THEN /\ view' = [view EXCEPT !.schema = error_alert("schemas.list failed")]
                     /\ n_clicks' = [n_clicks EXCEPT !.schema = <<>>]
                     /\ pending' = Without(pending, i)
                           \o ForItems("load_tables", "schema-item", view.schema.items,
                                       <<>>, store.catalog, None)
                     /\ UNCHANGED store
                ELSE LET schemas == SchemasOf(cat) IN
                     /\ view' = [view EXCEPT !.schema = ListGroup(schemas, cat)]
                     /\ store' = [store EXCEPT !.catalog = cat]
                     /\ n_clicks' = [n_clicks EXCEPT !.schema = Unclicked(schemas)]
                     /\ \E triggered \in Merged(ItemProps("schema-item", schemas),
                                                StoreProp("store-catalog")) :
                         pending' = Without(pending, i)
                            \o <<Invocation("load_tables", triggered,
                                            Unclicked(schemas), cat, None),
                                 Invocation("show_detail", <<StoreProp("store-catalog")>>,
                                            n_clicks.table, cat, store.schema)>>
    /\ UNCHANGED <<act, disc, idn, board, sqlx, cacheVars>>

\* Lines 113-133.
load_tables(i) ==
    LET inv == pending[i] IN
    /\ inv.cb = "load_tables"
    /\ IF \/ inv.triggered = <<>> \/ ~Truthy(inv.catalog)
          \/ ~inv.triggered[1].dict \/ inv.triggered[1].type # "schema-item"
       THEN /\ pending' = Without(pending, i)
            /\ last' = Ran(inv, TRUE, FALSE)
            /\ UNCHANGED <<view, store, n_clicks>>
       ELSE LET schema == inv.triggered[1].index IN
            /\ last' = Ran(inv, FALSE, TRUE)
            /\ \E raises \in Raises(schema \in Range(SchemasOf(inv.catalog))) :
                IF raises
                THEN /\ view' = [view EXCEPT !.table = error_alert("tables.list failed")]
                     /\ n_clicks' = [n_clicks EXCEPT !.table = <<>>]
                     /\ pending' = Without(pending, i)
                           \o ForItems("show_detail", "table-item", view.table.items,
                                       <<>>, store.catalog, store.schema)
                     /\ UNCHANGED store
                ELSE LET tables == TablesOf(inv.catalog, schema) IN
                     /\ view' = [view EXCEPT
                                   !.table = ListGroup(tables, inv.catalog \o "." \o schema)]
                     /\ store' = [store EXCEPT !.schema = schema]
                     /\ n_clicks' = [n_clicks EXCEPT !.table = Unclicked(tables)]
                     /\ \E triggered \in Merged(ItemProps("table-item", tables),
                                                StoreProp("store-schema")) :
                         pending' = Without(pending, i)
                            \o <<Invocation("show_detail", triggered,
                                            Unclicked(tables), store.catalog, schema)>>
    /\ UNCHANGED <<act, disc, idn, board, sqlx, cacheVars>>

\* Lines 144-191.
show_detail(i) ==
    LET inv == pending[i] IN
    /\ inv.cb = "show_detail"
    /\ IF \/ inv.triggered = <<>> \/ ~Truthy(inv.catalog) \/ ~Truthy(inv.schema)
          \/ ~inv.triggered[1].dict \/ inv.triggered[1].type # "table-item"
       THEN /\ last' = Ran(inv, TRUE, FALSE)
            /\ UNCHANGED view
       ELSE LET table == inv.triggered[1].index
                full_name == inv.catalog \o "." \o inv.schema \o "." \o table
            IN  /\ last' = Ran(inv, FALSE, TRUE)
                /\ \E raises \in Raises(table \in Range(TablesOf(inv.catalog, inv.schema))) :
                    view' = [view EXCEPT
                               !.detail = IF raises THEN error_alert("tables.get failed")
                                          ELSE DetailDiv(full_name)]
    /\ pending' = Without(pending, i)
    /\ UNCHANGED <<store, n_clicks, act, disc, idn, board, sqlx, cacheVars>>

\* The user clicks the k-th item of a list; the action before it has resolved.
Click(list, k, cb) ==
    /\ pending = <<>>
    /\ act.clicks < MaxClicks
    /\ view[list].kind = "list"
    /\ k \in 1..Len(view[list].items)
    /\ n_clicks' = [n_clicks EXCEPT ![list][k] = @ + 1]
    /\ pending' = <<Invocation(cb, <<ItemProp(list \o "-item", view[list].items[k])>>,
                               n_clicks'[list], store.catalog, store.schema)>>
    /\ act' = [act EXCEPT !.kind = list \o "-click", !.clicks = @ + 1,
                          !.view = view, !.store = store]
    /\ last' = Ran(Invocation("click", <<>>, <<>>, None, None), FALSE, FALSE)
    /\ UNCHANGED <<view, store, disc, idn, board, sqlx, cacheVars>>

ClickCatalog == \E k \in 1..Len(ServiceCatalogs) : Click("cat", k, "load_schemas")
ClickSchema == \E k \in 1..2 : Click("schema", k, "load_tables")
ClickTable == \E k \in 1..2 : Click("table", k, "show_detail")

\* Dash runs the requested callbacks one at a time, in an order it chooses.
RunLoadCatalogs == \E i \in 1..Len(pending) : load_catalogs(i)
RunLoadSchemas == \E i \in 1..Len(pending) : load_schemas(i)
RunLoadTables == \E i \in 1..Len(pending) : load_tables(i)
RunShowDetail == \E i \in 1..Len(pending) : show_detail(i)

PageNext ==
    \/ IntervalTick
    \/ RunLoadCatalogs
    \/ RunLoadSchemas
    \/ RunLoadTables
    \/ RunShowDetail
    \/ ClickCatalog
    \/ ClickSchema
    \/ ClickTable

\* The user clicks an item while callbacks of an earlier click are still
\* requested or running: the browser does not wait for them.
ClickOverlapping(list, k, cb) ==
    /\ pending # <<>>
    /\ act.kind # "mount"
    /\ act.clicks < MaxOverlap
    /\ view[list].kind = "list"
    /\ k \in 1..Len(view[list].items)
    /\ n_clicks' = [n_clicks EXCEPT ![list][k] = @ + 1]
    /\ pending' = Append(pending,
          Invocation(cb, <<ItemProp(list \o "-item", view[list].items[k])>>,
                     n_clicks'[list], store.catalog, store.schema))
    /\ act' = [act EXCEPT !.kind = list \o "-click", !.clicks = @ + 1,
                          !.view = view, !.store = store]
    /\ last' = Ran(Invocation("click", <<>>, <<>>, None, None), FALSE, FALSE)
    /\ UNCHANGED <<view, store, disc, idn, board, sqlx, cacheVars>>

ClickCatalogEarly ==
    \E k \in 1..Len(ServiceCatalogs) : ClickOverlapping("cat", k, "load_schemas")
ClickSchemaEarly == \E k \in 1..2 : ClickOverlapping("schema", k, "load_tables")
ClickTableEarly == \E k \in 1..2 : ClickOverlapping("table", k, "show_detail")

\* Dash may discard the answer of a callback that has been requested again
\* before it answered: the older invocation then changes nothing.
Supersede(i) ==
    /\ \E j \in (i + 1)..Len(pending) : pending[j].cb = pending[i].cb
    /\ pending' = Without(pending, i)
    /\ last' = Ran(pending[i], TRUE, FALSE)
    /\ UNCHANGED <<view, store, n_clicks, act, disc, idn, board, sqlx, cacheVars>>

DiscardSuperseded == \E i \in 1..Len(pending) : Supersede(i)

OverlapNext ==
    \/ IntervalTick
    \/ RunLoadCatalogs
    \/ RunLoadSchemas
    \/ RunLoadTables
    \/ RunShowDetail
    \/ ClickCatalog
    \/ ClickSchema
    \/ ClickTable
    \/ ClickCatalogEarly
    \/ ClickSchemaEarly
    \/ ClickTableEarly
    \/ DiscardSuperseded

(***************************************************************************)
(* pages/sales.py and pages/taxi.py: filter controls and four views each.  *)
(* Every view is the output of one callback that takes some controls as    *)
(* Input, runs one query in a try block and returns the fragment or the    *)
(* error alert.  None of them sets prevent_initial_call, so Dash runs each *)
(* once when the page is laid out, and again whenever one of its inputs    *)
(* changes: a control the user moves, or the n_intervals of sales-init     *)
(* when the interval fires.                                                *)
(***************************************************************************)
Pages == {"sales", "taxi"}

ViewsOf(page) ==
    IF page = "sales"
    THEN {"sales-kpis", "sales-trend", "sales-region", "sales-customers"}
    ELSE {"taxi-kpis", "taxi-dist-tab", "taxi-hourly-tab", "taxi-scatter-tab"}

\* The Input declarations of the callbacks, in the order of the arguments.
InputsOf(v) ==
    CASE v \in {"sales-kpis", "sales-trend", "sales-region"} ->
            <<"sales-years", "sales-status", "sales-init">>
      [] v = "sales-customers" ->
            <<"sales-years", "sales-status", "sales-topn", "sales-init">>
      [] v \in {"taxi-kpis", "taxi-hourly-tab"} -> <<"taxi-fare", "taxi-dist">>
      [] v \in {"taxi-dist-tab", "taxi-scatter-tab"} ->
            <<"taxi-fare", "taxi-dist", "taxi-sample">>

\* The controls the user moves, with the value of the layout first and one
\* other value.
ControlValues(c) ==
    CASE c = "sales-years" -> <<"1994-1997", "1992-1998">>
      [] c = "sales-status" -> <<"ALL", "O">>
      [] c = "sales-topn" -> <<"10", "25">>
      [] c = "taxi-fare" -> <<"0-100", "0-50">>
      [] c = "taxi-dist" -> <<"0-20", "0-10">>
      [] c = "taxi-sample" -> <<"10000", "50000">>

UserControls(page) ==
    IF page = "sales" THEN {"sales-years", "sales-status", "sales-topn"}
    ELSE {"taxi-fare", "taxi-dist", "taxi-sample"}

\* dcc.Interval(id="sales-init", interval=500, max_intervals=1); taxi has none.
Intervals(page) == IF page = "sales" THEN {"sales-init"} ELSE {}

\* A callback requested for a view, and the inputs that changed.
Request(v, triggered) == [view |-> v, triggered |-> triggered]

\* A plausible slip: every callback of the page runs on every change.
ReadersAll(page, c) == ViewsOf(page)

\* The callbacks Dash requests when property c changes: those declaring it.
Readers(page, c) == {v \in ViewsOf(page) : c \in Range(InputsOf(v))}

\* Some order in which the renderer queues a set of requests.
RECURSIVE Queue(_, _)
Queue(S, triggered) ==
    IF S = {} THEN <<>>
    ELSE LET v == CHOOSE x \in S : TRUE
         IN  <<Request(v, triggered)>> \o Queue(S \ {v}, triggered)

EmptyView == [kind |-> "empty", args |-> <<>>, msg |-> None]

\* layout(): without a warehouse path the page is the error alert alone;
\* otherwise the controls at their defaults, the empty views, and the initial
\* call of every callback requested.
BoardInit ==
    \E page \in Pages, http_path \in {None, "/sql/1.0/warehouses/wh1"} :
        board = IF ~Truthy(http_path)
                THEN [pc |-> "no-warehouse", page |-> page]
                ELSE [pc |-> "page", page |-> page,
                      controls |-> [c \in UserControls(page) |-> ControlValues(c)[1]]
                                   @@ [c \in Intervals(page) |-> "0"],
                      views |-> [v \in ViewsOf(page) |-> EmptyView],
                      pending |-> Queue(ViewsOf(page), {}),
                      act |-> [kind |-> "mount", control |-> None, changes |-> 0,
                               views |-> [v \in ViewsOf(page) |-> EmptyView]],
                      fetches |-> [v \in ViewsOf(page) |-> 0],
                      last |-> Request(None, {})]

\* The interval fires once: n_intervals becomes 1.
SalesInitTick ==
    /\ board.pc = "page"
    /\ "sales-init" \in Intervals(board.page)
    /\ board.controls["sales-init"] = "0"
    /\ board.act.kind = "mount"
    /\ board' = [board EXCEPT
            !.controls["sales-init"] = "1",
            !.pending = @ \o Queue(Readers(board.page, "sales-init"), {"sales-init"})]
    /\ UNCHANGED <<disc, sqlx, idn, cacheVars, pageVars>>

\* The user moves one control, after the page load has been worked off.
ChangeControl ==
    /\ board.pc = "page"
    /\ board.pending = <<>>
    /\ \A c \in Intervals(board.page) : board.controls[c] = "1"
    /\ board.act.changes < MaxChanges
    /\ \E c \in UserControls(board.page), k \in 1..2 :
        /\ ControlValues(c)[k] # board.controls[c]
        /\ board' = [board EXCEPT
                !.controls[c] = ControlValues(c)[k],
                !.pending = Queue(Readers(board.page, c), {c}),
                !.act = [kind |-> "change", control |-> c, changes |-> @.changes + 1,
                         views |-> board.views],
                !.fetches = [v \in ViewsOf(board.page) |-> 0]]
    /\ UNCHANGED <<disc, sqlx, idn, cacheVars, pageVars>>

\* One requested callback runs: the query is made once, and the fragment built
\* from the inputs, or the error alert, becomes the view.
UpdateView(v) ==
    /\ board.pc = "page"
    /\ \E i \in 1..Len(board.pending), raises \in BOOLEAN :
        /\ board.pending[i].view = v
        /\ board' = [board EXCEPT
                !.pending = Without(@, i),
                !.fetches[v] = @ + 1,
                !.last = board.pending[i],
                !.views[v] =
                    IF raises THEN [EmptyView EXCEPT !.kind = "error",
                                                     !.msg = "run_query failed"]
                    ELSE [EmptyView EXCEPT
                            !.kind = "fragment",
                            !.args = [k \in 1..Len(InputsOf(v)) |->
                                        board.controls[InputsOf(v)[k]]]]]
    /\ UNCHANGED <<disc, sqlx, idn, cacheVars, pageVars>>

SalesUpdateKpis == UpdateView("sales-kpis")
SalesUpdateTrend == UpdateView("sales-trend")
SalesUpdateRegion == UpdateView("sales-region")
SalesUpdateCustomers == UpdateView("sales-customers")
TaxiUpdateKpis == UpdateView("taxi-kpis")
TaxiUpdateDistributions == UpdateView("taxi-dist-tab")
TaxiUpdateHourly == UpdateView("taxi-hourly-tab")
TaxiUpdateScatter == UpdateView("taxi-scatter-tab")

BoardNext ==
    \/ SalesInitTick
    \/ ChangeControl
    \/ SalesUpdateKpis
    \/ SalesUpdateTrend
    \/ SalesUpdateRegion
    \/ SalesUpdateCustomers
    \/ TaxiUpdateKpis
    \/ TaxiUpdateDistributions
    \/ TaxiUpdateHourly
    \/ TaxiUpdateScatter

(***************************************************************************)
(* pages/identity.py: load_identity renders the identity of the caller     *)
(* from the headers of the request and, with a delegated token, from the   *)
(* current-user service.                                                   *)
(***************************************************************************)
\* The headers a request may carry, as the client spells them.
HeaderNames ==
    {"X-Forwarded-Email", "X-Forwarded-Preferred-Username", "X-Forwarded-User",
     "X-Real-Ip", "X-Forwarded-Access-Token", "X-Api-Secret", "X-TOKEN-ID"}

\* The values a delegated access token header takes.
TokenValues == {"", "token-1", "token-2"}

HeaderValue(k, token) ==
    CASE k = "X-Forwarded-Access-Token" -> token
      [] k = "X-Forwarded-Email" -> "ann@example.org"
      [] k = "X-Forwarded-Preferred-Username" -> "ann"
      [] k = "X-Forwarded-User" -> "42"
      [] k = "X-Real-Ip" -> "10.0.0.7"
      [] k = "X-Api-Secret" -> "s3cret"
      [] k = "X-TOKEN-ID" -> "7"

\* request.headers of the requests the page may be served for.
HeaderSets ==
    {[k \in S |-> HeaderValue(k, token)] : S \in SUBSET HeaderNames, token \in TokenValues}

NameChars(k) ==
    CASE k = "X-Forwarded-Email" ->
            <<"X", "-", "F", "o", "r", "w", "a", "r", "d", "e", "d", "-",
              "E", "m", "a", "i", "l">>
      [] k = "X-Forwarded-Preferred-Username" ->
            <<"X", "-", "F", "o", "r", "w", "a", "r", "d", "e", "d", "-",
              "P", "r", "e", "f", "e", "r", "r", "e", "d", "-", "U", "s",
              "e", "r", "n", "a", "m", "e">>
      [] k = "X-Forwarded-User" ->
            <<"X", "-", "F", "o", "r", "w", "a", "r", "d", "e", "d", "-",
              "U", "s", "e", "r">>
      [] k = "X-Real-Ip" ->
            <<"X", "-", "R", "e", "a", "l", "-", "I", "p">>
      [] k = "X-Forwarded-Access-Token" ->
            <<"X", "-", "F", "o", "r", "w", "a", "r", "d", "e", "d", "-",
              "A", "c", "c", "e", "s", "s", "-", "T", "o", "k", "e", "n">>
      [] k = "X-Api-Secret" ->
            <<"X", "-", "A", "p", "i", "-", "S", "e", "c", "r", "e", "t">>
      [] k = "X-TOKEN-ID" ->
            <<"X", "-", "T", "O", "K", "E", "N", "-", "I", "D">>

\* headers.get(k, default)
Get(headers, k, default) == IF k \in DOMAIN headers THEN headers[k] ELSE default

\* value or "n/a"
OrNA(value) == IF Truthy(value) THEN value ELSE "n/a"

\* A plausible slip: the details are fetched whatever the token is.
ShowDetailsAlways(token) == TRUE

\* Line 46: if token
ShowDetails(token) == Truthy(token)

\* A plausible slip: the names are compared without k.lower().
SafeHeadersCaseSensitive(headers) ==
    {<<k, headers[k]>> : k \in
        {n \in DOMAIN headers :
            /\ ~Contains(NameChars(n), <<"t", "o", "k", "e", "n">>)
            /\ ~Contains(NameChars(n), <<"s", "e", "c", "r", "e", "t">>)}}

\* Line 108: the headers whose name holds neither "token" nor "secret".
SafeHeaders(headers) ==
    {<<k, headers[k]>> : k \in
        {n \in DOMAIN headers :
            /\ ~Contains(Lower(NameChars(n)), <<"t", "o", "k", "e", "n">>)
            /\ ~Contains(Lower(NameChars(n)), <<"s", "e", "c", "r", "e", "t">>)}}

\* What the current-user service answers.
MeOutcomes == {"raises", "groups", "no groups"}

\* The sections load_identity returns (lines 37-122) for the headers it sees;
\* without a request context (RuntimeError, lines 33 and 109) it sees none.
Sections(ctx, request_headers, me, ws_id, host) ==
    LET headers == IF ctx THEN request_headers ELSE <<>>
        token == Get(headers, "X-Forwarded-Access-Token", "")
    IN  [cards |-> [Email |-> OrNA(Get(headers, "X-Forwarded-Email", "")),
                    Username |-> OrNA(Get(headers, "X-Forwarded-Preferred-Username", "")),
                    IP |-> OrNA(Get(headers, "X-Real-Ip", ""))],
         body |->
            IF ShowDetails(token)
            THEN IF me = "raises"
                 THEN <<"error: Could not fetch detailed user info">>
                 ELSE <<"Account Details", "Group Memberships">>
                      \o (IF me = "groups" THEN <<"badges">>
                          ELSE <<"info: No group memberships returned.">>)
                      \o <<"Workspace">>
                      \o (IF ws_id THEN <<"Workspace ID">> ELSE <<>>)
                      \o (IF host THEN <<"Host">> ELSE <<>>)
            ELSE <<"warning: Basic info only.">>,
         me_calls |-> IF ShowDetails(token) THEN 1 ELSE 0,
         raw |-> SafeHeaders(headers)]

\* The page as layout() returns it (lines 11-21), with the initial call of
\* load_identity requested.
IdnInit ==
    \E ctx \in BOOLEAN, headers \in HeaderSets :
        /\ ~ctx => headers = <<>>
        /\ idn = [pc |-> "page", ctx |-> ctx, headers |-> headers, pending |-> 1,
                  n_intervals |-> 0, content |-> <<>>, me_calls |-> 0]

\* dcc.Interval(id="identity-trigger", interval=1, max_intervals=1) fires.
IdentityTick ==
    /\ idn.pc = "page"
    /\ idn.n_intervals = 0
    /\ idn' = [idn EXCEPT !.n_intervals = 1, !.pending = @ + 1]
    /\ UNCHANGED <<disc, sqlx, board, cacheVars, pageVars>>

\* Lines 24-122.
load_identity ==
    /\ idn.pc = "page"
    /\ idn.pending > 0
    /\ \E me \in MeOutcomes, ws_id \in BOOLEAN, host \in BOOLEAN :
        LET sections == Sections(idn.ctx, idn.headers, me, ws_id, host) IN
        idn' = [idn EXCEPT !.pending = @ - 1,
                           !.content = <<sections>>,
                           !.me_calls = @ + sections.me_calls]
    /\ UNCHANGED <<disc, sqlx, board, cacheVars, pageVars>>

IdnNext == IdentityTick \/ load_identity

DiscIdle == [pc |-> "idle"]

IdnIdle == [pc |-> "idle"]

BoardIdle == [pc |-> "idle"]

\* The pages a specification does not exercise are not open.
OthersIdle == idn = IdnIdle /\ board = BoardIdle

InitDiscovery == DiscInit /\ sqlx = SqlIdle /\ CacheIdle /\ PageIdle /\ OthersIdle

SpecDiscovery == InitDiscovery /\ [][Discover]_vars

InitSql == SqlInit /\ disc = DiscIdle /\ CacheIdle /\ PageIdle /\ OthersIdle

NextSql == RunSqlBlank \/ RunSqlQuery

SpecSql == InitSql /\ [][NextSql]_vars

\* The SQL explorer page in use.
InitSqlPage == SqlPageInit /\ disc = DiscIdle /\ CacheIdle /\ PageIdle /\ OthersIdle

SpecSqlPage == InitSqlPage /\ [][NextSqlPage]_vars

\* Requests served by concurrent threads (the server is threaded, and one page
\* load fires several callbacks at once).
InitCache ==
    /\ CacheInit /\ exclusive = FALSE /\ disc = DiscIdle /\ sqlx = SqlIdle /\ PageIdle
    /\ OthersIdle

SpecCache == InitCache /\ [][CacheNext]_vars

\* Requests served one after the other.
InitCacheSeq ==
    /\ CacheInit /\ exclusive = TRUE /\ disc = DiscIdle /\ sqlx = SqlIdle /\ PageIdle
    /\ OthersIdle

SpecCacheSeq == InitCacheSeq /\ [][CacheNext]_vars

\* The catalog page, from its load on, one user action at a time.
InitCatalog ==
    PageInit /\ disc = DiscIdle /\ sqlx = SqlIdle /\ CacheIdle /\ OthersIdle

SpecCatalog == InitCatalog /\ [][PageNext]_vars

\* The catalog browser with clicks that overlap the callbacks of earlier ones.
InitCatalogOverlap == InitCatalog
SpecCatalogOverlap == InitCatalogOverlap /\ [][OverlapNext]_vars

\* A sales or taxi page, from its load on, one user action at a time.
InitBoard ==
    BoardInit /\ disc = DiscIdle /\ sqlx = SqlIdle /\ CacheIdle /\ PageIdle
              /\ idn = IdnIdle

SpecBoard == InitBoard /\ [][BoardNext]_vars

\* The identity page, from its load on.
InitIdentity ==
    IdnInit /\ disc = DiscIdle /\ sqlx = SqlIdle /\ CacheIdle /\ PageIdle
            /\ board = BoardIdle

SpecIdentity == InitIdentity /\ [][IdnNext]_vars

(***************************************************************************)
(* Claims about warehouse discovery, checked under SpecDiscovery.          *)
(***************************************************************************)
\* The least index of a non-empty set of listing positions.
FirstIdx(S) == CHOOSE i \in S : \A j \in S : i <= j

ServerlessAt(ws) == {i \in 1..Len(ws) : ws[i].enable_serverless_compute}
RunningAt(ws) == {i \in 1..Len(ws) : ws[i].state = "RUNNING"}

\* C4: when the DATABRICKS_WAREHOUSE_ID override is set, the result is the
\* path of that identifier, whatever the listing and whatever the outcome of
\* any other collaborator call made during discovery.
C4_OverrideUnconditional ==
    (disc.pc = "done" /\ Truthy(disc.warehouse_id))
        => disc.result = "/sql/1.0/warehouses/" \o disc.warehouse_id

\* C5: with no override, the result follows the fallback chain over the
\* listing: the first serverless warehouse in listing order if there is one,
\* else the first RUNNING one, else the first listed, else None; and None when
\* no listing could be obtained.
C5_FallbackChain ==
    (disc.pc = "done" /\ ~Truthy(disc.warehouse_id))
        => LET ws == disc.warehouses
           IN  IF disc.client_raises \/ disc.list_raises
                   THEN disc.result = None
               ELSE IF ServerlessAt(ws) # {}
                   THEN disc.result = "/sql/1.0/warehouses/"
                            \o WarehouseIds[FirstIdx(ServerlessAt(ws))]
               ELSE IF RunningAt(ws) # {}
                   THEN disc.result = "/sql/1.0/warehouses/"
                            \o WarehouseIds[FirstIdx(RunningAt(ws))]
               ELSE IF Len(ws) > 0
                   THEN disc.result = "/sql/1.0/warehouses/wh1"
               ELSE disc.result = None

\* A listing whose first serverless warehouse comes third, after a stopped and
\* a running one, has been resolved to that third warehouse.
C5_Witness ==
    /\ disc.pc = "done"
    /\ disc.warehouse_id = None
    /\ ~disc.client_raises /\ ~disc.list_raises
    /\ Len(disc.warehouses) = 3
    /\ disc.warehouses[1] = [enable_serverless_compute |-> FALSE, state |-> "STOPPED"]
    /\ disc.warehouses[2] = [enable_serverless_compute |-> FALSE, state |-> "RUNNING"]
    /\ disc.warehouses[3].enable_serverless_compute
    /\ disc.result = "/sql/1.0/warehouses/wh3"

(***************************************************************************)
(* Claims about the soft row cap, checked under SpecSql.                   *)
(***************************************************************************)
LimitWord == <<"l", "i", "m", "i", "t">>

\* Characters that cannot be part of an SQL identifier or keyword.
Delimiters == {" ", "\n", ";", ",", "(", ")", "*"}

\* Positions where the text holds "limit" in any letter case.
LimitAt(s) ==
    {i \in 1..(Len(s) - 4) : Lower(SubSeq(s, i, i + 4)) = LimitWord}

\* The statement holds LIMIT as a word of its own: a limit clause.
HasLimitClause(s) ==
    \E i \in LimitAt(s) :
        /\ i = 1 \/ s[i - 1] \in Delimiters
        /\ i + 4 = Len(s) \/ s[i + 5] \in Delimiters

\* core is query without leading whitespace and without a tail of
\* whitespace and semicolons, and nothing else is removed or changed.
IsTrimOf(core, query) ==
    \E i \in 1..(Len(query) + 1), j \in 0..Len(query) :
        /\ j >= i - 1
        /\ core = SubSeq(query, i, j)
        /\ \A k \in 1..(i - 1) : query[k] \in Whitespace
        /\ \A k \in (j + 1)..Len(query) : query[k] \in Whitespace \cup {";"}
        /\ i <= Len(query) => query[i] \notin Whitespace
        /\ j >= i => query[j] # ";"

\* The decimal digits of the caps the model requests.
CapDigits(max_rows) ==
    CASE max_rows = <<10>> -> <<"1", "0">>
      [] max_rows = <<1200>> -> <<"1", "2", "0", "0">>
      [] OTHER -> <<"5", "0", "0">>

IsWrapOf(stmt, query, digits) ==
    \E core \in {SubSeq(query, i, j) : i \in 1..(Len(query) + 1), j \in 0..Len(query)} :
        /\ IsTrimOf(core, query)
        /\ stmt = <<"S", "E", "L", "E", "C", "T", " ", "*", " ", "F", "R", "O", "M", " ", "(">>
                  \o core
                  \o <<")", " ", "_", "q", " ", "L", "I", "M", "I", "T", " ">>
                  \o digits

\* C7 as stated: every statement that has no limit clause is submitted wrapped
\* in an outer LIMIT N, N the requested cap, 500 when the cap input is empty.
C7_NoLimitClauseIsWrapped ==
    (/\ sqlx.pc = "done"
     /\ ~IsBlank(sqlx.query)
     /\ sqlx.max_rows # <<0>>
     /\ ~HasLimitClause(sqlx.query))
        => /\ Len(sqlx.submitted) = 1
           /\ IsWrapOf(sqlx.submitted[1], sqlx.query, CapDigits(sqlx.max_rows))

\* C7 as amended: every non-blank statement whose text does not contain the
\* letters "limit" in any letter case is submitted wrapped in an outer
\* LIMIT N, N the requested cap, 500 when the cap input is empty or 0.
C7_NoLimitSubstringIsWrapped ==
    (/\ sqlx.pc = "done"
     /\ ~IsBlank(sqlx.query)
     /\ LimitAt(sqlx.query) = {})
        => /\ Len(sqlx.submitted) = 1
           /\ IsWrapOf(sqlx.submitted[1], sqlx.query, CapDigits(sqlx.max_rows))

\* " SELECT a;" with a requested cap of 10 has been submitted as
\* SELECT * FROM (SELECT a) _q LIMIT 10.
C7_Witness ==
    /\ sqlx.pc = "done"
    /\ sqlx.query = <<" ", "S", "E", "L", "E", "C", "T", " ", "a", ";">>
    /\ sqlx.max_rows = <<10>>
    /\ sqlx.submitted =
         << <<"S", "E", "L", "E", "C", "T", " ", "*", " ", "F", "R", "O", "M", " ", "(",
              "S", "E", "L", "E", "C", "T", " ", "a",
              ")", " ", "_", "q", " ", "L", "I", "M", "I", "T", " ", "1", "0">> >>

\* C8: a statement that already contains a limit clause is submitted without
\* a second one: the submitted text is the input with only surrounding
\* whitespace and trailing semicolons removed.
C8_LimitedNotWrapped ==
    (/\ sqlx.pc = "done"
     /\ ~IsBlank(sqlx.query)
     /\ HasLimitClause(sqlx.query))
        => /\ Len(sqlx.submitted) = 1
           /\ IsTrimOf(sqlx.submitted[1], sqlx.query)
           /\ Cardinality(LimitAt(sqlx.submitted[1])) = Cardinality(LimitAt(sqlx.query))

\* "SELECT a LIMIT 5;" has been submitted as SELECT a LIMIT 5.
C8_Witness ==
    /\ sqlx.pc = "done"
    /\ sqlx.query = <<"S", "E", "L", "E", "C", "T", " ", "a",
                      " ", "L", "I", "M", "I", "T", " ", "5", ";">>
    /\ sqlx.submitted =
         << <<"S", "E", "L", "E", "C", "T", " ", "a", " ", "L", "I", "M", "I", "T", " ", "5">> >>

(***************************************************************************)
(* Claims about the memoized helpers and run_query.                        *)
(***************************************************************************)
Caches == {whCache, connCache, clientCache}

\* C1: when the computation of a memoized helper fails, nothing is stored (so
\* that a later call runs the computation again): no cache ever holds the
\* outcome of a computation that raised.
C1_FailuresNotCached ==
    \A cache \in Caches : cache # <<>> => ~cache[1].raised

\* C2: whatever the interleaving of first calls, the computation of a helper
\* that succeeds runs once, and all callers hold the same value.
C2_ComputedOnceSameValue ==
    /\ stats.connRuns <= 1
    /\ stats.clientRuns <= 1
    /\ \A t, u \in Threads :
        /\ (th[t].conn # Unset /\ th[u].conn # Unset) => th[t].conn = th[u].conn
        /\ (th[t].client # Unset /\ th[u].client # Unset) => th[t].client = th[u].client

\* C3: with requests served one after the other, once a helper has returned a
\* value no later step runs its body (no recomputation, no outbound call) and
\* every value a caller holds is that first value, whatever has become of the
\* environment value since.
C3_ReadyValueKept ==
    [][/\ stats.whFirst # <<>> =>
            \A t \in Threads :
                /\ th'[t].pc # "wh_body"
                /\ th'[t].http_path \in {Unset, stats.whFirst[1]}
       /\ stats.connFirst # <<>> =>
            \A t \in Threads :
                /\ th'[t].pc # "conn_body"
                /\ th'[t].conn \in {Unset, stats.connFirst[1]}
       /\ stats.clientFirst # <<>> =>
            \A t \in Threads :
                /\ th'[t].pc # "client_body"
                /\ th'[t].client \in {Unset, stats.clientFirst[1]}]_vars

\* A run_query call that found the environment value unset has been served the
\* path computed while it was set, and the connection opened for it, from the
\* caches: the bodies ran once each.
C3_Witness ==
    \E t \in Threads :
        /\ th[t].pc = "done" /\ th[t].out = "rows"
        /\ th[t].hits = 2
        /\ th[t].envSeen = None
        /\ th[t].http_path = "/sql/1.0/warehouses/wh-env"
        /\ th[t].conn = "connection#1"
        /\ stats.whRuns = 1 /\ stats.connRuns = 1

\* C6: a run_query call that finds no warehouse path ends with the
\* configuration error, having opened no connection and executed nothing; a
\* call that reaches the cursor executes exactly the text it was given.
C6_ConfigErrorBeforeConnect ==
    \A t \in Threads :
        /\ th[t].pc \in {"conn_lookup", "conn_body", "conn_store", "execute"}
              => th[t].http_path \notin {None, "", Unset}
        /\ (th[t].pc = "done" /\ th[t].req = "run_query") =>
              IF th[t].http_path \in {None, ""}
              THEN /\ th[t].out = "RuntimeError: No SQL warehouse available."
                   /\ th[t].opened = 0 /\ th[t].conn = Unset
                   /\ th[t].executed = <<>>
              ELSE /\ th[t].out # "RuntimeError: No SQL warehouse available."
                   /\ th[t].out \in {"rows", "query failed"}
                         <=> th[t].executed = <<th[t].query>>
                   /\ th[t].out = "connect failed" <=> th[t].executed = <<>>

\* A run_query call has ended with the configuration error.
C6_Witness ==
    \E t \in Threads :
        /\ th[t].pc = "done" /\ th[t].req = "run_query"
        /\ th[t].query = "SELECT 2"
        /\ th[t].http_path = None
        /\ th[t].out = "RuntimeError: No SQL warehouse available."
        /\ th[t].executed = <<>>
        /\ stats.connRuns = 0


(***************************************************************************)
(* C9: clicking a catalog changes only the schema list and store-catalog:  *)
(* for as long as the click is being worked off, the catalog list, the     *)
(* table list, the detail pane and store-schema are what they were when    *)
(* the user clicked, also while the fresh schema items are inserted.       *)
(* Clicking a schema changes only the table list and store-schema: the     *)
(* catalog list, the schema list, store-catalog and the detail pane are    *)
(* what they were when the user clicked.                                   *)
(***************************************************************************)
C9_ClickFrame ==
    /\ act.kind = "cat-click" =>
          /\ view.cat = act.view.cat
          /\ view.table = act.view.table
          /\ view.detail = act.view.detail
          /\ store.schema = act.store.schema
    /\ act.kind = "schema-click" =>
          /\ view.cat = act.view.cat
          /\ view.schema = act.view.schema
          /\ view.detail = act.view.detail
          /\ store.catalog = act.store.catalog

\* The slots the invoked callback watches hold what they held when the
\* current action began.
SlotsUnchanged(inv) ==
    CASE inv.cb = "load_tables" -> inv.catalog = act.store.catalog
      [] inv.cb = "show_detail" ->
            inv.catalog = act.store.catalog /\ inv.schema = act.store.schema
      [] OTHER -> TRUE

(***************************************************************************)
(* C10: when load_schemas, load_tables or show_detail has been invoked in  *)
(* an action in which no item of its own list has a positive click count   *)
(* and no slot it watches has changed, it has returned no_update for every *)
(* output and has made no catalog-service call.                            *)
(***************************************************************************)
C10_NoOpRule ==
    (/\ last.inv.cb \in {"load_schemas", "load_tables", "show_detail"}
     /\ ~AnyClicked(last.inv.n_clicks)
     /\ SlotsUnchanged(last.inv))
    => (last.noUpdate /\ ~last.called)


(***************************************************************************)
(* C11: every error raised while a view callback computes its content is   *)
(* caught inside the callback and returned as an error fragment carrying   *)
(* the message: no invocation of run_sql or update_viz ends by raising,    *)
(* and an error fragment on the page carries a message.                    *)
(***************************************************************************)
C11_FailureContained ==
    /\ ~sqlx.raised
    /\ sqlx.results.kind = "error" => Truthy(sqlx.results.msg)
    /\ sqlx.chart.kind = "error" => Truthy(sqlx.chart.msg)

\* The column types that are numeric.
NumericTypes == {"bigint", "double", "decimal"}

\* The names of the numeric-typed columns of a result set.
NumericTyped(df) ==
    ColumnNames(SelectSeq(df, LAMBDA col : col.type \in NumericTypes))

(***************************************************************************)
(* C17: when run_sql offers the visualization controls, the Y-axis         *)
(* candidates are exactly the numeric-typed columns of the result set, the *)
(* result set has at least one numeric column and at least two columns,    *)
(* and the default Y value is one of the candidates.                       *)
(***************************************************************************)
C17_YAxisNumeric ==
    (sqlx.results.kind = "rows" /\ sqlx.results.viz) =>
        /\ sqlx.results.y = NumericTyped(sqlx.results.df)
        /\ NumericTyped(sqlx.results.df) # <<>>
        /\ Len(sqlx.results.df) >= 2
        /\ sqlx.results.y0 \in Range(sqlx.results.y)

(***************************************************************************)
(* C19: after any sequence of runs sql-data-store is non-empty exactly     *)
(* when the results pane shows the rows of the latest run, it then holds   *)
(* the result set of that run, and a chart on the page was drawn from the  *)
(* result set the pane displays.                                           *)
(***************************************************************************)
C19_StoreFollowsPane ==
    /\ sqlx.store # <<>> <=> (sqlx.results.kind = "rows" /\ sqlx.results.run = sqlx.runs)
    /\ sqlx.store # <<>> => sqlx.store[1] = [run |-> sqlx.results.run, df |-> sqlx.results.df]
    /\ sqlx.chart.kind # "empty" => sqlx.chart.run = sqlx.results.run


(***************************************************************************)
(* C12: while a sales or taxi page is loaded and the user has not acted,   *)
(* no view is computed more than once (one query per view, the interval    *)
(* included), and once nothing is left to run every view is rendered and   *)
(* has been computed exactly once.                                         *)
(***************************************************************************)
C12_MountOnce ==
    (board.pc = "page" /\ board.act.kind = "mount") =>
        \A v \in ViewsOf(board.page) :
            /\ board.fetches[v] <= 1
            /\ (/\ board.pending = <<>>
                /\ \A c \in Intervals(board.page) : board.controls[c] = "1")
               => (board.views[v].kind # "empty" /\ board.fetches[v] = 1)

(***************************************************************************)
(* C13: while the change of one control is worked off, the views that do   *)
(* not declare the control as an input keep their fragments and make no    *)
(* query, and once nothing is left to run the views that declare it have   *)
(* each been recomputed once.                                              *)
(***************************************************************************)
C13_ExactRecomputation ==
    (board.pc = "page" /\ board.act.kind = "change") =>
        \A v \in ViewsOf(board.page) :
            IF board.act.control \in Range(InputsOf(v))
            THEN /\ board.fetches[v] <= 1
                 /\ board.pending = <<>> => board.fetches[v] = 1
            ELSE board.views[v] = board.act.views[v] /\ board.fetches[v] = 0

\* The Top-N slider has been moved and worked off: the top-customers view shows
\* the new value and is the only view that made a query.
C13_Witness ==
    /\ board.pc = "page" /\ board.page = "sales"
    /\ board.act.kind = "change" /\ board.act.control = "sales-topn"
    /\ board.pending = <<>>
    /\ board.views["sales-customers"].kind = "fragment"
    /\ board.views["sales-customers"].args[3] = "25"
    /\ board.fetches = [v \in ViewsOf("sales") |->
                          IF v = "sales-customers" THEN 1 ELSE 0]

(***************************************************************************)
(* C15: a callback run makes one attempt of its query, and a view that     *)
(* shows a failure is computed again only by a run that a user action      *)
(* requested, that is one with a control of the user among its triggers.   *)
(***************************************************************************)
C15_NoRetries ==
    [][(board.pc = "page" /\ Len(board'.pending) < Len(board.pending)) =>
          LET v == board'.last.view IN
          /\ board'.fetches[v] = board.fetches[v] + 1
          /\ board.views[v].kind = "error" =>
                board'.last.triggered \cap UserControls(board.page) # {}]_vars


\* The delegated access token load_identity finds: none without a request
\* context or without the header.
TokenSeen == IF idn.ctx THEN Get(idn.headers, "X-Forwarded-Access-Token", "") ELSE ""

(***************************************************************************)
(* C18: when the request carries no delegated access token (no request     *)
(* context, no such header, or an empty one), what load_identity has       *)
(* rendered is the basic-info cards, with n/a for a missing value, and the *)
(* warning about delegated auth: no error fragment, no account details, no *)
(* group memberships, no workspace section, and no current-user call.      *)
(***************************************************************************)
C18_NoTokenBasicInfo ==
    (idn.content # <<>> /\ ~Truthy(TokenSeen)) =>
        LET sections == idn.content[1] IN
        /\ sections.body = <<"warning: Basic info only.">>
        /\ idn.me_calls = 0
        /\ sections.cards =
              [Email |-> IF idn.ctx /\ "X-Forwarded-Email" \in DOMAIN idn.headers
                         THEN idn.headers["X-Forwarded-Email"] ELSE "n/a",
               Username |->
                  IF idn.ctx /\ "X-Forwarded-Preferred-Username" \in DOMAIN idn.headers
                  THEN idn.headers["X-Forwarded-Preferred-Username"] ELSE "n/a",
               IP |-> IF idn.ctx /\ "X-Real-Ip" \in DOMAIN idn.headers
                      THEN idn.headers["X-Real-Ip"] ELSE "n/a"]

\* A request with the forwarded e-mail and no token header has been answered.
C18_Witness ==
    /\ idn.content # <<>>
    /\ idn.ctx
    /\ "X-Forwarded-Email" \in DOMAIN idn.headers
    /\ "X-Forwarded-Access-Token" \notin DOMAIN idn.headers
    /\ idn.content[1].cards.Email = "ann@example.org"
    /\ idn.content[1].cards.IP = "n/a"
    /\ idn.content[1].body = <<"warning: Basic info only.">>


(***************************************************************************)
(* C16: no view writes a slot it does not own: store-catalog changes only  *)
(* when load_schemas answers a catalog click, store-schema only when       *)
(* load_tables answers a schema click, and store-table only in a table     *)
(* click.                                                                  *)
(***************************************************************************)
C16_SlotOwnership ==
    [][/\ store'.catalog # store.catalog =>
             (act.kind = "cat-click" /\ last'.inv.cb = "load_schemas")
       /\ store'.schema # store.schema =>
             (act.kind = "schema-click" /\ last'.inv.cb = "load_tables")
       /\ store'.table # store.table => act.kind = "table-click"]_vars

\* The invocation run last made its catalog-service call, and the call failed.
ListingFailed(cb, list) ==
    last.inv.cb = cb /\ last.called /\ view[list].kind = "error"

\* The properties the requested invocations report as triggered.
TriggeredTypes ==
    UNION {{pending[i].triggered[j].type : j \in 1..Len(pending[i].triggered)} :
              i \in 1..Len(pending)}

(***************************************************************************)
(* C20: when the catalog-service call of load_schemas has failed, the      *)
(* schema list shows the error fragment, store-catalog holds what it held  *)
(* before the action, and no requested callback has a schema item or       *)
(* store-catalog among its triggers; likewise for load_tables, the table   *)
(* list, store-schema, table items.                                        *)
(***************************************************************************)
C20_ListingErrorKeepsSlot ==
    /\ ListingFailed("load_schemas", "schema") =>
          /\ Truthy(view.schema.msg)
          /\ store.catalog = act.store.catalog
          /\ TriggeredTypes \cap {"schema-item", "store-catalog"} = {}
    /\ ListingFailed("load_tables", "table") =>
          /\ Truthy(view.table.msg)
          /\ store.schema = act.store.schema
          /\ TriggeredTypes \cap {"table-item", "store-schema"} = {}

\* The schemas of samples are listed, then a click on main fails: the schema
\* list is the error, store-catalog is still samples, and load_tables has
\* been requested for the removed items with nothing triggered.
C20_Witness ==
    /\ ListingFailed("load_schemas", "schema")
    /\ act.kind = "cat-click"
    /\ act.view.schema.kind = "list"
    /\ last.inv.triggered = <<ItemProp("cat-item", "main")>>
    /\ store.catalog = "samples"
    /\ pending = <<Invocation("load_tables", <<>>, <<>>, "samples", None)>>


\* The list items an invocation reports as triggered.
TriggeredItems(inv) == SelectSeq(inv.triggered, LAMBDA p : p.dict)

\* The invocation was requested by a response that wrote the store.
RequestedByWrite(inv, id) == StoreProp(id) \in Range(inv.triggered)

(***************************************************************************)
(* C14: write-before-read.  In every state, also when clicks overlap the   *)
(* callbacks of earlier clicks, a displayed schema list is the list of the *)
(* catalog in store-catalog and a displayed table list is a list of the    *)
(* schema in store-schema; and every load_tables or show_detail requested  *)
(* by a write of a slot reads the written value: the items it is triggered *)
(* for are the children of the catalog (schema) it reads.                  *)
(***************************************************************************)
C14_WriteBeforeRead ==
    /\ view.schema.kind = "list" =>
          /\ view.schema.of = store.catalog
          /\ view.schema.items = SchemasOf(store.catalog)
    /\ view.table.kind = "list" =>
          \E c \in Range(ServiceCatalogs) :
              /\ view.table.of = c \o "." \o store.schema
              /\ view.table.items = TablesOf(c, store.schema)
    /\ \A i \in 1..Len(pending) :
          LET inv == pending[i] IN
          /\ (inv.cb = "load_tables" /\ RequestedByWrite(inv, "store-catalog")) =>
                /\ inv.catalog \in Range(ServiceCatalogs)
                /\ TriggeredItems(inv) = ItemProps("schema-item", SchemasOf(inv.catalog))
          /\ (inv.cb = "show_detail" /\ RequestedByWrite(inv, "store-catalog")) =>
                inv.catalog \in Range(ServiceCatalogs)
          /\ (inv.cb = "show_detail" /\ RequestedByWrite(inv, "store-schema")) =>
                \E c \in Range(ServiceCatalogs) :
                    /\ inv.schema \in Range(SchemasOf(c))
                    /\ TriggeredItems(inv) =
                           ItemProps("table-item", TablesOf(c, inv.schema))

\* A second click was made while the first was being answered; load_schemas
\* has published list and slot for one of them, its readers are requested,
\* and the load_schemas of the other click is still to run.
C14_Witness ==
    /\ act.clicks = 2
    /\ view.schema.kind = "list"
    /\ \E i \in 1..Len(pending) :
          pending[i].cb = "load_tables" /\ RequestedByWrite(pending[i], "store-catalog")
    /\ \E i \in 1..Len(pending) :
          /\ pending[i].cb = "load_schemas"
          /\ AnyClicked(pending[i].n_clicks)
          /\ pending[i].triggered[1].index # store.catalog


(***************************************************************************)
(* C21: detail consistency.  Whenever show_detail has asked the catalog    *)
(* service for catalog.schema.table, the table is one the service lists    *)
(* for that catalog and that schema: the clicked item came from a listing  *)
(* of the store-catalog and store-schema that show_detail reads.           *)
(***************************************************************************)
C21_DetailConsistency ==
    (last.inv.cb = "show_detail" /\ last.called) =>
        last.inv.triggered[1].index
            \in Range(TablesOf(last.inv.catalog, last.inv.schema))


\* The header name holds the word in some letter case.
NameHolds(k, word) == Contains(Lower(NameChars(k)), word)

\* The request with another value in its delegated access token header.
WithToken(headers, token) ==
    [k \in DOMAIN headers |->
        IF k = "X-Forwarded-Access-Token" THEN token ELSE headers[k]]

(***************************************************************************)
(* C22: header redaction.  The raw-headers section load_identity has       *)
(* rendered for a request lists no header whose name holds "token" or      *)
(* "secret" in any letter case, lists every other header of the request    *)
(* with its value, and is the section rendered for the same request with   *)
(* any other value in the delegated access token header.                   *)
(***************************************************************************)
C22_HeaderRedaction ==
    (idn.content # <<>> /\ idn.ctx) =>
        LET raw == idn.content[1].raw IN
        /\ \A p \in raw :
              /\ ~NameHolds(p[1], <<"t", "o", "k", "e", "n">>)
              /\ ~NameHolds(p[1], <<"s", "e", "c", "r", "e", "t">>)
              /\ p[1] \in DOMAIN idn.headers
              /\ p[2] = idn.headers[p[1]]
        /\ \A k \in {"X-Forwarded-Email", "X-Forwarded-Preferred-Username",
                     "X-Forwarded-User", "X-Real-Ip"} \cap DOMAIN idn.headers :
              <<k, idn.headers[k]>> \in raw
        /\ "X-Forwarded-Access-Token" \in DOMAIN idn.headers =>
              \A token \in TokenValues, me \in MeOutcomes :
                  Sections(TRUE, WithToken(idn.headers, token), me, FALSE, FALSE).raw
                      = raw

\* A request carrying a token, the headers X-Api-Secret and X-TOKEN-ID and
\* the forwarded e-mail has been answered: only the e-mail is listed.
C22_Witness ==
    /\ idn.content # <<>>
    /\ idn.ctx
    /\ DOMAIN idn.headers =
          {"X-Forwarded-Access-Token", "X-Api-Secret", "X-TOKEN-ID", "X-Forwarded-Email"}
    /\ idn.headers["X-Forwarded-Access-Token"] = "token-1"
    /\ idn.content[1].raw = {<<"X-Forwarded-Email", "ann@example.org">>}

====
